---- MODULE Spec2Model ----
(***************************************************************************)
(* Model of the glTF document session of src/src/fastgltf.cpp: the entity  *)
(* parsers (parseBuffers .. parseScenes), the helpers they share           *)
(* (iterateOverArray, decodeUri, getMimeTypeFromString,                    *)
(* parseTextureExtensions) and the two asset accessors; and of the loader  *)
(* (Parser) that builds a session: the four loadGLTF overloads,            *)
(* checkFileExtension, readJsonFile and checkAssetField.                   *)
(*                                                                         *)
(* JSON values are tagged records [t, v]; a JSON object is a record whose  *)
(* domain is the set of fields that are present.  Strings are sequences    *)
(* of one-character strings so that substr/find can be computed.  A        *)
(* size_t is an integer read in two's complement: -1 is SIZE_MAX (npos),   *)
(* so that npos + 1 = 0 and 4 - 5 is "huge", as in the 64 bit arithmetic.  *)
(***************************************************************************)
EXTENDS Integers, Sequences, FiniteSets, TLC

\* doc, options: the JSON root and the Options the session was built with;
\* errorCode, assetOwned (parsedAsset != nullptr), asset (the Asset's
\* collections): the fields of glTF; crashed: a null parsedAsset was
\* dereferenced.  The others record the calls made: their number and cap,
\* the last operation and what it returned, the parsers that ran, whether a
\* parser returned an error, whether a retrieval returned the asset, whether
\* getParsedAsset did.
VARIABLES doc, options, errorCode, assetOwned, asset, crashed,
          calls, budget, lastOp, lastRet, ran, reported, succeeded, consumed

\* The Parser (the loader): parserErrorCode is Parser::errorCode, what
\* getError returns; gltf is what the last loadGLTF returned ("null" or
\* "session", the session being doc/options/... above) and gltfDirectory the
\* directory that session was given; activeImplementation is simdjson's
\* process-wide implementation.  loads, lastLoad and failedBefore record the
\* loads made: their number, the overload and arguments of the last one,
\* and whether a load before the last one failed.
VARIABLES parserErrorCode, gltf, gltfDirectory, activeImplementation,
          loads, lastLoad, failedBefore

loaderVars == <<parserErrorCode, gltf, gltfDirectory, activeImplementation,
                loads, lastLoad, failedBefore>>

vars == <<doc, options, errorCode, assetOwned, asset, crashed,
          calls, budget, lastOp, lastRet, ran, reported, succeeded, consumed,
          parserErrorCode, gltf, gltfDirectory, activeImplementation,
          loads, lastLoad, failedBefore>>

\* ------------------------------------------------------------------ bounds
\* operations invoked on one session
MaxCalls == 3
\* valid elements in front of the element under test
MaxValid == 2

\* ------------------------------------------------------------- JSON values
U(n) == [t |-> "uint", v |-> n]
\* a negative integer, and a number with a fraction (n + 1/2)
I(n) == [t |-> "int", v |-> n]
F(n) == [t |-> "double", v |-> n]
S(chars) == [t |-> "str", v |-> chars]
B(b) == [t |-> "bool", v |-> b]
A(elems) == [t |-> "arr", v |-> elems]
O(fields) == [t |-> "obj", v |-> fields]
EmptyFields == [x \in {} |-> 0]

\* object[name].error() == SUCCESS
Has(obj, name) == name \in DOMAIN obj.v
\* object[name].get_uint64() == SUCCESS
IsUint(obj, name) == Has(obj, name) /\ obj.v[name].t = "uint"
IsString(obj, name) == Has(obj, name) /\ obj.v[name].t = "str"
IsBool(obj, name) == Has(obj, name) /\ obj.v[name].t = "bool"
IsObject(obj, name) == Has(obj, name) /\ obj.v[name].t = "obj"
IsArray(obj, name) == Has(obj, name) /\ obj.v[name].t = "arr"
\* value.get_double() == SUCCESS: every JSON number
IsNumber(value) == value.t \in {"uint", "int", "double"}

\* ----------------------------------------------------------------- size_t
Npos == -1
IsHuge(n) == n < 0

\* std::string_view::substr(pos, n), pos <= size
Substr(s, pos, n) ==
    LET avail == Len(s) - pos
        cnt == IF IsHuge(n) \/ n > avail THEN avail ELSE n
    IN  IF cnt <= 0 THEN <<>> ELSE SubSeq(s, pos + 1, pos + cnt)

\* std::string_view::find(ch, pos)
Find(s, ch, pos) ==
    LET hits == {i \in 0..(Len(s) - 1) : i >= pos /\ s[i + 1] = ch}
    IN  IF IsHuge(pos) \/ hits = {} THEN Npos
        ELSE CHOOSE i \in hits : \A j \in hits : i <= j

\* --------------------------------------------------------------- MIME types
mimeTypeJpeg == <<"i", "m", "a", "g", "e", "/", "j", "p", "e", "g">>
mimeTypePng == <<"i", "m", "a", "g", "e", "/", "p", "n", "g">>
mimeTypeKtx == <<"i", "m", "a", "g", "e", "/", "k", "t", "x", "2">>
mimeTypeDds == <<"i", "m", "a", "g", "e", "/", "v", "n", "d", "-", "m", "s", ".", "d", "d", "s">>
mimeTypeGltfBuffer == <<"a", "p", "p", "l", "i", "c", "a", "t", "i", "o", "n", "/", "g", "l", "t", "f", "-", "b", "u", "f", "f", "e", "r">>
mimeTypeOctetStream == <<"a", "p", "p", "l", "i", "c", "a", "t", "i", "o", "n", "/", "o", "c", "t", "e", "t", "-", "s", "t", "r", "e", "a", "m">>

getMimeTypeFromString(mime) ==
    IF mime = mimeTypeJpeg THEN "JPEG"
    ELSE IF mime = mimeTypePng THEN "PNG"
    ELSE IF mime = mimeTypeKtx THEN "KTX2"
    ELSE IF mime = mimeTypeDds THEN "DDS"
    ELSE IF mime = mimeTypeGltfBuffer THEN "GltfBuffer"
    ELSE IF mime = mimeTypeOctetStream THEN "OctetStream"
    ELSE "None"

\* ------------------------------------------------------------- data sources
\* the base directory of the session
directory == <<"d", "i", "r">>

\* fg::DataSource {} ; encoded is the text handed to base64::decode, whose
\* result becomes source.bytes
DefaultSource ==
    [path |-> <<>>, encoded |-> <<>>, decoded |-> FALSE, mimeType |-> "None",
     bufferViewIndex |-> 0]

\* std::filesystem::path::operator/ : an absolute right side replaces the left
PathJoin(dir, rel) ==
    IF Len(rel) > 0 /\ rel[1] = "/" THEN rel
    ELSE IF Len(dir) = 0 THEN rel
    ELSE dir \o <<"/">> \o rel

DataPrefix == <<"d", "a", "t", "a">>
Base64Name == <<"b", "a", "s", "e", "6", "4">>

IsDataUri(uri) == Substr(uri, 0, 4) = DataPrefix

EncodedData(uri, encodingEnd) == Substr(uri, encodingEnd, Npos)

decodeUri(uri) ==
    IF IsDataUri(uri)
    THEN LET index == Find(uri, ";", 0)
             encodingEnd == Find(uri, ",", index + 1)
         IN  IF index = Npos \/ encodingEnd = Npos
             THEN [error |-> "InvalidGltf", source |-> DefaultSource, location |-> "None"]
             ELSE IF Substr(uri, index + 1, encodingEnd - index - 1) # Base64Name
             THEN [error |-> "InvalidGltf", source |-> DefaultSource, location |-> "None"]
             ELSE [error |-> "None",
                   source |-> [DefaultSource EXCEPT
                                 !.mimeType = getMimeTypeFromString(Substr(uri, 5, index - 5)),
                                 !.encoded = EncodedData(uri, encodingEnd),
                                 !.decoded = TRUE],
                   location |-> "VectorWithMime"]
    ELSE [error |-> "None",
          source |-> [DefaultSource EXCEPT !.path = PathJoin(directory, uri)],
          location |-> "FilePathWithByteRange"]

\* ------------------------------------------------------------------ options
hasBit(opts, flag) == flag \in opts

\* --------------------------------------------------- external lookup tables
\* getComponentType: 5130 (GL_DOUBLE) is the double precision component type
ComponentTypeDouble == 5130
getComponentType(code) ==
    IF code = ComponentTypeDouble THEN "Double"
    ELSE IF code \in {5120, 5121, 5122, 5123, 5125, 5126} THEN "Component"
    ELSE "Invalid"

\* static_cast<float>(double): integers up to 2^24 are exact, the integers
\* between 2^24 and 2^25 round to the nearest even integer (ties to even)
FloatExact == 16777216
ToFloat(val) ==
    IF val.t = "uint" /\ val.v > FloatExact /\ val.v % 2 = 1
    THEN [val EXCEPT !.v = IF (val.v \div 2) % 2 = 0 THEN val.v - 1 ELSE val.v + 1]
    ELSE val

\* optional string field "name"
NameOf(obj) == IF IsString(obj, "name") THEN obj.v["name"].v ELSE <<>>
\* optional index field, SIZE_MAX when absent
IndexOr(obj, name, dflt) == IF IsUint(obj, name) THEN obj.v[name].v ELSE dflt

Fail == [ok |-> FALSE]
Done(entity) == [ok |-> TRUE, e |-> entity]

\* ------------------------------------------------------- texture extensions
\* getImageIndexForExtension when an extension object without a source is
\* reported like an absent extension
getImageIndexForExtensionLenient(object, extension) ==
    IF ~IsObject(object, extension) \/ ~IsUint(object.v[extension], "source")
    THEN [invalidGltf |-> FALSE, extensionNotPresent |-> TRUE, imageIndex |-> 0]
    ELSE [invalidGltf |-> FALSE, extensionNotPresent |-> FALSE,
          imageIndex |-> object.v[extension].v["source"].v]

getImageIndexForExtension(object, extension) ==
    IF ~IsObject(object, extension)
    THEN [invalidGltf |-> FALSE, extensionNotPresent |-> TRUE, imageIndex |-> 0]
    ELSE IF ~IsUint(object.v[extension], "source")
    THEN [invalidGltf |-> TRUE, extensionNotPresent |-> FALSE, imageIndex |-> 0]
    ELSE [invalidGltf |-> FALSE, extensionNotPresent |-> FALSE,
          imageIndex |-> object.v[extension].v["source"].v]

\* the DDS half of parseTextureExtensions when the final "return false" is a
\* "return true" that keeps the plain source
DdsThenFallback(imageIndex, extensions, opts) ==
    IF hasBit(opts, "LoadDDSExtension")
    THEN LET r == getImageIndexForExtension(extensions, "MSFT_texture_dds")
         IN  IF r.invalidGltf THEN [ok |-> FALSE, imageIndex |-> imageIndex]
             ELSE IF ~r.extensionNotPresent THEN [ok |-> TRUE, imageIndex |-> r.imageIndex]
             ELSE [ok |-> TRUE, imageIndex |-> imageIndex]
    ELSE [ok |-> TRUE, imageIndex |-> imageIndex]

\* the DDS half of parseTextureExtensions (lines 90-102)
DdsThenFail(imageIndex, extensions, opts) ==
    IF hasBit(opts, "LoadDDSExtension")
    THEN LET r == getImageIndexForExtension(extensions, "MSFT_texture_dds")
         IN  IF r.invalidGltf THEN [ok |-> FALSE, imageIndex |-> imageIndex]
             ELSE IF ~r.extensionNotPresent THEN [ok |-> TRUE, imageIndex |-> r.imageIndex]
             ELSE [ok |-> FALSE, imageIndex |-> imageIndex]
    ELSE [ok |-> FALSE, imageIndex |-> imageIndex]

\* parseTextureExtensions with the candidates swapped: DDS consulted before
\* basisu
parseTextureExtensionsDdsFirst(imageIndex, extensions, opts) ==
    LET d == DdsThenFail(imageIndex, extensions, opts)
    IN  IF d.ok THEN d
        ELSE IF hasBit(opts, "LoadKTXExtension")
        THEN LET r == getImageIndexForExtension(extensions, "KHR_texture_basisu")
             IN  IF r.invalidGltf THEN [ok |-> FALSE, imageIndex |-> imageIndex]
                 ELSE IF ~r.extensionNotPresent THEN [ok |-> TRUE, imageIndex |-> r.imageIndex]
                 ELSE [ok |-> FALSE, imageIndex |-> imageIndex]
        ELSE [ok |-> FALSE, imageIndex |-> imageIndex]

\* returns the bool result and the value left in texture.imageIndex
parseTextureExtensions(imageIndex, extensions, opts) ==
    IF hasBit(opts, "LoadKTXExtension")
    THEN LET r == getImageIndexForExtension(extensions, "KHR_texture_basisu")
         IN  IF r.invalidGltf THEN [ok |-> FALSE, imageIndex |-> imageIndex]
             ELSE IF ~r.extensionNotPresent THEN [ok |-> TRUE, imageIndex |-> r.imageIndex]
             ELSE DdsThenFail(imageIndex, extensions, opts)
    ELSE DdsThenFail(imageIndex, extensions, opts)

\* ------------------------------------------------------- element callbacks
\* parseBuffers, lines 201-237
ParseBuffer(value) ==
    IF value.t # "obj" THEN Fail
    ELSE IF ~IsUint(value, "byteLength") THEN Fail
    ELSE LET hasUri == IsString(value, "uri")
             r == IF hasUri THEN decodeUri(value.v["uri"].v)
                  ELSE [error |-> "None", source |-> DefaultSource, location |-> "None"]
         IN  IF r.error # "None" THEN Fail
             ELSE IF r.location = "None" THEN Fail
             ELSE Done([byteLength |-> value.v["byteLength"].v, data |-> r.source,
                        location |-> r.location, name |-> NameOf(value)])

\* parseBufferViews, lines 248-283
ParseBufferView(value) ==
    IF value.t # "obj" THEN Fail
    ELSE IF ~IsUint(value, "buffer") THEN Fail
    ELSE IF ~IsUint(value, "byteLength") THEN Fail
    ELSE Done([bufferIndex |-> value.v["buffer"].v,
               byteLength |-> value.v["byteLength"].v,
               byteOffset |-> IndexOr(value, "byteOffset", 0),
               target |-> IndexOr(value, "target", 0),
               name |-> NameOf(value)])

\* parseAccessors, lines 293-343
ParseAccessor(value, opts) ==
    IF value.t # "obj" THEN Fail
    ELSE IF ~IsUint(value, "componentType") THEN Fail
    ELSE IF getComponentType(value.v["componentType"].v) = "Double"
            /\ ~hasBit(opts, "AllowDouble") THEN Fail
    ELSE IF ~IsString(value, "type") THEN Fail
    ELSE IF ~IsUint(value, "count") THEN Fail
    ELSE Done([componentType |-> getComponentType(value.v["componentType"].v),
               type |-> value.v["type"].v,
               count |-> value.v["count"].v,
               bufferViewIndex |-> IndexOr(value, "bufferView", Npos),
               byteOffset |-> IndexOr(value, "byteOffset", 0),
               normalized |-> IF IsBool(value, "normalized")
                              THEN value.v["normalized"].v ELSE FALSE,
               name |-> NameOf(value)])

\* parseImages, lines 353-403; junk is the value image.location holds after
\* the declaration "Image image;", which does not initialize it
ParseImage(value, junk) ==
    IF value.t # "obj" THEN Fail
    ELSE LET hasUri == IsString(value, "uri")
             r == IF hasUri THEN decodeUri(value.v["uri"].v)
                  ELSE [error |-> "None", source |-> DefaultSource, location |-> junk]
             uriMime == IF hasUri /\ IsString(value, "mimeType")
                        THEN getMimeTypeFromString(value.v["mimeType"].v)
                        ELSE r.source.mimeType
             hasView == IsUint(value, "bufferView")
         IN  IF hasUri /\ Has(value, "bufferView") THEN Fail
             ELSE IF r.error # "None" THEN Fail
             ELSE IF hasView /\ ~IsString(value, "mimeType") THEN Fail
             ELSE IF r.location = "None" THEN Fail
             ELSE Done([data |-> IF hasView
                                 THEN [r.source EXCEPT
                                         !.bufferViewIndex = value.v["bufferView"].v,
                                         !.mimeType = getMimeTypeFromString(value.v["mimeType"].v)]
                                 ELSE [r.source EXCEPT !.mimeType = uriMime],
                        location |-> r.location, name |-> NameOf(value)])

\* parseTextures, lines 413-458; fallbackSet is FALSE while
\* texture.fallbackImageIndex was never assigned
ParseTexture(value, opts) ==
    IF value.t # "obj" THEN Fail
    ELSE LET hasExtensions == IsObject(value, "extensions")
             source == IndexOr(value, "source", Npos)
             x == IF hasExtensions
                  THEN parseTextureExtensions(source, value.v["extensions"], opts)
                  ELSE [ok |-> TRUE, imageIndex |-> source]
         IN  IF ~IsUint(value, "source") /\ ~hasExtensions THEN Fail
             ELSE IF ~x.ok THEN Fail
             ELSE Done([imageIndex |-> x.imageIndex,
                        fallbackSet |-> hasExtensions,
                        fallbackImageIndex |-> IF hasExtensions THEN source ELSE 0,
                        samplerIndex |-> IndexOr(value, "sampler", Npos),
                        name |-> NameOf(value)])

\* parseNodes, lines 561-573: the slot of node.matrix that entry k (from 0)
\* is written to; the loop never advances i
MatrixSlot(k) == 0

MatrixSize == 16

\* parseNodes, lines 550-585
ParseNode(value) ==
    IF value.t # "obj" THEN Fail
    ELSE LET isArr == IsArray(value, "matrix")
             m == IF isArr THEN value.v["matrix"].v ELSE <<>>
             bad == {k \in 1..Len(m) : ~IsNumber(m[k])}
             stop == IF bad = {} THEN Len(m) + 1
                     ELSE CHOOSE k \in bad : \A j \in bad : k <= j
             wrote(i) == {k \in 1..(stop - 1) : MatrixSlot(k - 1) = i}
             last(i) == CHOOSE k \in wrote(i) : \A j \in wrote(i) : j <= k
         IN  Done([meshIndex |-> IndexOr(value, "mesh", Npos),
                   hasMatrix |-> isArr /\ bad = {},
                   matrix |-> [i \in 0..(MatrixSize - 1) |->
                                 IF wrote(i) = {} THEN U(0) ELSE ToFloat(m[last(i)])],
                   name |-> NameOf(value)])

\* the attributes loop of parseMeshes, lines 493-503
AttributesOk(attrs) == \A key \in DOMAIN attrs.v : attrs.v[key].t = "uint"

\* inner callback of parseMeshes, lines 476-525
ParsePrimitive(value) ==
    IF value.t # "obj" THEN Fail
    ELSE IF ~IsObject(value, "attributes") THEN Fail
    ELSE IF ~AttributesOk(value.v["attributes"]) THEN Fail
    ELSE Done([attributes |-> [key \in DOMAIN value.v["attributes"].v |->
                                 value.v["attributes"].v[key].v],
               type |-> IndexOr(value, "mode", 4),
               indicesAccessorIndex |-> IndexOr(value, "indices", Npos),
               materialIndex |-> IndexOr(value, "material", Npos)])

\* inner callback of parseScenes, lines 610-618
ParseSceneNode(value) ==
    IF value.t # "uint" THEN Fail ELSE Done(value.v)

\* --------------------------------------------------------- array iteration
DataLocations == {"None", "VectorWithMime", "BufferViewWithMime", "FilePathWithByteRange"}
\* elements of the longest array of a document
MaxElems == MaxValid + 1
\* for the callbacks that declare no uninitialized local
NoJunk == [i \in 1..MaxElems |-> "None"]

\* parent[arrayName] when it is an array, else no elements
Elements(parent, arrayName) ==
    IF IsArray(parent, arrayName) THEN parent.v[arrayName].v ELSE << >>

\* iterateOverArray, lines 54-75, given whether parent[arrayName] is an array
\* and what the callback answers for each of its elements; out holds what
\* the callbacks appended to the destination before the loop ended
iterateOverArray(isArray, res) ==
    IF ~isArray
    THEN [found |-> FALSE, error |-> "None", out |-> << >>]
    ELSE LET bad == {i \in 1..Len(res) : ~res[i].ok}
         IN  IF bad = {}
             THEN [found |-> TRUE, error |-> "None",
                   out |-> [i \in 1..Len(res) |-> res[i].e]]
             ELSE LET k == CHOOSE i \in bad : \A j \in bad : i <= j
                  IN  [found |-> FALSE, error |-> "InvalidGltf",
                       out |-> [i \in 1..(k - 1) |-> res[i].e]]

\* callback of parseMeshes, lines 468-540
ParseMesh(value) ==
    IF value.t # "obj" THEN Fail
    ELSE LET prims == Elements(value, "primitives")
             p == iterateOverArray(IsArray(value, "primitives"),
                                   [i \in 1..Len(prims) |-> ParsePrimitive(prims[i])])
         IN  IF ~p.found /\ p.error # "None" THEN Fail
             ELSE Done([primitives |-> p.out, name |-> NameOf(value)])

\* callback of parseScenes, lines 595-627
ParseScene(value) ==
    IF value.t # "obj" THEN Fail
    ELSE LET nodes == Elements(value, "nodes")
             n == iterateOverArray(IsArray(value, "nodes"),
                                   [i \in 1..Len(nodes) |-> ParseSceneNode(nodes[i])])
         IN  IF ~n.found /\ n.error # "None" THEN Fail
             ELSE Done([nodeIndices |-> n.out, name |-> NameOf(value)])

\* the lambda each parser hands to iterateOverArray; junk is what an
\* uninitialized local of the lambda holds
Callback(kind, value, opts, junk) ==
    CASE kind = "buffers" -> ParseBuffer(value)
      [] kind = "bufferViews" -> ParseBufferView(value)
      [] kind = "accessors" -> ParseAccessor(value, opts)
      [] kind = "images" -> ParseImage(value, junk)
      [] kind = "textures" -> ParseTexture(value, opts)
      [] kind = "meshes" -> ParseMesh(value)
      [] kind = "nodes" -> ParseNode(value)
      [] kind = "scenes" -> ParseScene(value)

\* iterateOverArray(data->root, kind, lambda of kind)
IterateTopLevel(root, kind, opts, junk) ==
    iterateOverArray(IsArray(root, kind),
                     [i \in 1..Len(Elements(root, kind)) |->
                        Callback(kind, Elements(root, kind)[i], opts, junk[i])])

\* ---------------------------------------------------------------- documents
UriOctetQQ == <<"d", "a", "t", "a", ":", "a", "p", "p", "l", "i", "c", "a", "t", "i", "o", "n", "/", "o", "c", "t", "e", "t", "-", "s", "t", "r", "e", "a", "m", ";", "b", "a", "s", "e", "6", "4", ",", "Q", "Q", "=", "=">>
UriPngQUI == <<"d", "a", "t", "a", ":", "i", "m", "a", "g", "e", "/", "p", "n", "g", ";", "b", "a", "s", "e", "6", "4", ",", "Q", "U", "I", "=">>
UriUnknownMime == <<"d", "a", "t", "a", ":", "t", "e", "x", "t", "/", "p", "l", "a", "i", "n", ";", "b", "a", "s", "e", "6", "4", ",", "Q", "Q", "=", "=">>
UriBase16 == <<"d", "a", "t", "a", ":", "a", "p", "p", "l", "i", "c", "a", "t", "i", "o", "n", "/", "o", "c", "t", "e", "t", "-", "s", "t", "r", "e", "a", "m", ";", "b", "a", "s", "e", "1", "6", ",", "4", "1">>
UriNoComma == <<"d", "a", "t", "a", ":", "i", "m", "a", "g", "e", "/", "p", "n", "g", ";", "b", "a", "s", "e", "6", "4">>
UriNoSemicolon == <<"d", "a", "t", "a", ":", "i", "m", "a", "g", "e", "/", "p", "n", "g", ",", "Q", "Q", "=", "=">>
UriCommaFirst == <<"d", "a", "t", "a", ":", "a", ",", "b", ";", "b", "a", "s", "e", "6", "4", ",", "Q", "Q", "=", "=">>
UriTwoCommas == <<"d", "a", "t", "a", ":", "i", "m", "a", "g", "e", "/", "p", "n", "g", ";", "b", "a", "s", "e", "6", "4", ",", "Q", "Q", ",", "=">>
UriEmptyPayload == <<"d", "a", "t", "a", ":", "i", "m", "a", "g", "e", "/", "p", "n", "g", ";", "b", "a", "s", "e", "6", "4", ",">>
UriNoMime == <<"d", "a", "t", "a", ":", ";", "b", "a", "s", "e", "6", "4", ",", "Q", "Q", "=", "=">>
UriDataBin == <<"d", "a", "t", "a", ".", "b", "i", "n">>
UriDatabase == <<"d", "a", "t", "a", "b", "a", "s", "e", "/", "m", "e", "s", "h", ".", "b", "i", "n">>
UriDataBinB64 == <<"d", "a", "t", "a", ".", "b", "i", "n", ";", "b", "a", "s", "e", "6", "4", ",", "Q", "Q", "=", "=">>
UriPlain == <<"m", "e", "s", "h", ".", "b", "i", "n">>
UriShort == <<"d", "a", "t">>
UriEmpty == << >>
UriUpper == <<"D", "A", "T", "A", ":", "i", "m", "a", "g", "e", "/", "p", "n", "g", ";", "b", "a", "s", "e", "6", "4", ",", "Q", "Q", "=", "=">>
UriSub == <<"s", "u", "b", "/", "a", ";", "b", ",", "c", ".", "b", "i", "n">>
UriAbsolute == <<"/", "a", "b", "s", "/", "m", "e", "s", "h", ".", "b", "i", "n">>
Uris ==
    <<UriOctetQQ, UriPngQUI, UriUnknownMime, UriBase16,
      UriNoComma, UriNoSemicolon, UriCommaFirst, UriTwoCommas,
      UriEmptyPayload, UriNoMime, UriDataBin, UriDatabase,
      UriDataBinB64, UriPlain, UriShort, UriEmpty,
      UriUpper, UriSub, UriAbsolute>>
NameA == <<"A">>
TypeScalar == <<"S", "C", "A", "L", "A", "R">>
MimePngText == <<"i", "m", "a", "g", "e", "/", "p", "n", "g">>
MimeOtherText == <<"t", "e", "x", "t", "/", "x">>

Kinds == {"buffers", "bufferViews", "accessors", "images", "textures", "meshes",
          "nodes", "scenes"}

Repeat(x, n) == [i \in 1..n |-> x]

ValidPrimitive == O([attributes |-> O([POSITION |-> U(0)]), indices |-> U(1)])

\* an element its parser accepts
ValidElem(kind) ==
    CASE kind = "buffers" -> O([byteLength |-> U(4), uri |-> S(UriPlain)])
      [] kind = "bufferViews" -> O([buffer |-> U(0), byteLength |-> U(4)])
      [] kind = "accessors" ->
            O([componentType |-> U(5126), type |-> S(TypeScalar), count |-> U(1)])
      [] kind = "images" -> O([uri |-> S(UriPlain), name |-> S(NameA)])
      [] kind = "textures" -> O([source |-> U(0)])
      [] kind = "meshes" -> O([primitives |-> A(<<ValidPrimitive>>)])
      [] kind = "nodes" -> O([mesh |-> U(0)])
      [] kind = "scenes" -> O([nodes |-> A(<<U(0), U(1)>>)])

\* elements that are not an object, miss or mistype a required field, or
\* break a rule of their entity
Malformed(kind) ==
    CASE kind = "buffers" ->
            <<U(1), O([uri |-> S(UriPlain)]), O([byteLength |-> S(NameA), uri |-> S(UriPlain)]),
              O([byteLength |-> U(4)])>>
      [] kind = "bufferViews" ->
            <<S(NameA), O([buffer |-> U(0)]), O([buffer |-> I(-1), byteLength |-> U(4)])>>
      [] kind = "accessors" ->
            <<A(<< >>), O([type |-> S(TypeScalar), count |-> U(1)]),
              O([componentType |-> U(5126), count |-> U(1)]),
              O([componentType |-> U(5126), type |-> S(TypeScalar)]),
              O([componentType |-> U(ComponentTypeDouble), type |-> S(TypeScalar),
                 count |-> U(1)])>>
      [] kind = "images" ->
            <<U(1), O([uri |-> S(UriPlain), bufferView |-> U(0)]),
              O([uri |-> S(UriBase16)])>>
      [] kind = "textures" -> <<B(TRUE), O(EmptyFields), O([source |-> S(NameA)])>>
      [] kind = "meshes" ->
            <<U(1), O(EmptyFields), O([primitives |-> U(5)]),
              O([primitives |-> A(<<ValidPrimitive, O([indices |-> U(1)])>>)]),
              O([primitives |-> A(<<O([attributes |-> O([POSITION |-> S(NameA)])])>>)])>>
      [] kind = "nodes" -> <<U(1), S(NameA), A(<< >>)>>
      [] kind = "scenes" -> <<U(1), O([nodes |-> A(<<U(0), S(NameA)>>)]), B(FALSE)>>

\* the root object: the array under test and, beside it, a valid "scenes"
MakeDoc(kind, present, value) ==
    O([f \in (IF present THEN {kind} ELSE {}) \cup ({"scenes"} \ {kind}) |->
         IF f = kind THEN value ELSE A(<<ValidElem("scenes")>>)])

\* ------------------------------------------------------------ the session
\* the array of a session document: n valid elements, malformed element j
\* (none when j = 0), m valid elements behind it
SessionArray(kind, n, j, m) ==
    A(Repeat(ValidElem(kind), n)
      \o (IF j = 0 THEN << >> ELSE <<Malformed(kind)[j]>>)
      \o Repeat(ValidElem(kind), m))

\* glTF::glTF, lines 106-108
Fresh ==
    /\ errorCode = "None"
    /\ assetOwned = TRUE
    /\ asset = [k \in Kinds |-> << >>]
    /\ crashed = FALSE
    /\ calls = 0
    /\ lastOp = "none"
    /\ lastRet = "none"
    /\ ran = {}
    /\ reported = FALSE
    /\ succeeded = FALSE
    /\ consumed = FALSE

\* the loader that returned the session, when the session is what is
\* looked at: one successful in-memory load
NoLoad == [overload |-> "none", path |-> << >>, opts |-> {}]

LoaderIdle ==
    /\ parserErrorCode = "None"
    /\ gltf = "session"
    /\ gltfDirectory = directory
    /\ activeImplementation = "best"
    /\ loads = 0
    /\ lastLoad = NoLoad
    /\ failedBefore = FALSE

\* the malformed elements tried in a session: not an object, and a required
\* field missing
SessionMalformed == 2

Init ==
    /\ Fresh
    /\ LoaderIdle
    /\ options = {}
    /\ budget = MaxCalls
    /\ \E kind \in Kinds :
          \/ doc = MakeDoc(kind, FALSE, U(0))
          \/ doc = MakeDoc(kind, TRUE, U(5))
          \/ \E n \in 0..MaxValid : doc = MakeDoc(kind, TRUE, SessionArray(kind, n, 0, 0))
          \/ \E n \in 0..MaxValid, j \in 1..SessionMalformed :
                /\ j > 1 => n = 1
                /\ doc = MakeDoc(kind, TRUE, SessionArray(kind, n, j, IF n = 0 THEN 1 ELSE 0))

\* RecordError without its condition: the helper's error is always stored
RecordErrorAlways(old, found, error) == error

\* the tail of every parser, e.g. lines 239-243
RecordError(old, found, error) ==
    IF ~found /\ error # "None" THEN error ELSE old

\* one entity parser, e.g. parseBuffers, lines 199-244
ParserStep(kind, junk) ==
    /\ ~crashed
    /\ calls < budget
    /\ LET r == IterateTopLevel(doc, kind, options, junk)
           err == RecordError(errorCode, r.found, r.error)
       IN  IF ~assetOwned /\ Len(r.out) > 0
           THEN \* parsedAsset->...emplace_back through the moved-from pointer
                /\ crashed' = TRUE
                /\ lastRet' = "crash"
                /\ UNCHANGED <<errorCode, asset, reported>>
           ELSE /\ asset' = [asset EXCEPT ![kind] = @ \o r.out]
                /\ errorCode' = err
                /\ lastRet' = err
                /\ reported' = (reported \/ err # "None")
                /\ UNCHANGED crashed
    /\ calls' = calls + 1
    /\ lastOp' = kind
    /\ ran' = ran \cup {kind}
    /\ UNCHANGED <<doc, options, budget, assetOwned, succeeded, consumed>>
    /\ UNCHANGED loaderVars

parseBuffers == ParserStep("buffers", NoJunk)
parseBufferViews == ParserStep("bufferViews", NoJunk)
parseAccessors == ParserStep("accessors", NoJunk)
\* element i of "images" reaches line 391 without an assignment to
\* image.location: it is an object without a string uri
ReadsJunk(i) ==
    /\ IsArray(doc, "images")
    /\ i <= Len(doc.v["images"].v)
    /\ doc.v["images"].v[i].t = "obj"
    /\ ~IsString(doc.v["images"].v[i], "uri")

parseImages ==
    \E junk \in [1..MaxElems -> DataLocations] :
        /\ \A i \in 1..MaxElems : ~ReadsJunk(i) => junk[i] = "None"
        /\ ParserStep("images", junk)
parseTextures == ParserStep("textures", NoJunk)
parseMeshes == ParserStep("meshes", NoJunk)
parseNodes == ParserStep("nodes", NoJunk)
parseScenes == ParserStep("scenes", NoJunk)

\* PointerResult without the error check
PointerResultNoCheck(err, owned) == IF owned THEN "asset" ELSE "null"

\* what getParsedAssetPointer returns, lines 192-197
PointerResult(err, owned) ==
    IF err # "None" THEN "null" ELSE IF owned THEN "asset" ELSE "null"

\* what getParsedAsset returns, lines 184-190
AssetResult(err, owned) ==
    IF err # "None" THEN "null" ELSE IF owned THEN "asset" ELSE "null"

\* OwnedAfterMove when the asset is copied out instead of moved
OwnedAfterCopy(err, owned) == owned

\* parsedAsset != nullptr after getParsedAsset: std::move empties it
OwnedAfterMove(err, owned) == IF err # "None" THEN owned ELSE FALSE

Retrievals == {"getParsedAsset", "getParsedAssetPointer"}

getParsedAsset ==
    /\ ~crashed
    /\ calls < budget
    /\ lastRet' = AssetResult(errorCode, assetOwned)
    /\ assetOwned' = OwnedAfterMove(errorCode, assetOwned)
    /\ succeeded' = (succeeded \/ lastRet' = "asset")
    /\ consumed' = (consumed \/ lastRet' = "asset")
    /\ calls' = calls + 1
    /\ lastOp' = "getParsedAsset"
    /\ UNCHANGED <<doc, options, budget, errorCode, asset, crashed, ran, reported>>
    /\ UNCHANGED loaderVars

getParsedAssetPointer ==
    /\ ~crashed
    /\ calls < budget
    /\ lastRet' = PointerResult(errorCode, assetOwned)
    /\ succeeded' = (succeeded \/ lastRet' = "asset")
    /\ calls' = calls + 1
    /\ lastOp' = "getParsedAssetPointer"
    /\ UNCHANGED <<doc, options, budget, errorCode, assetOwned, asset, crashed, ran,
                   reported, consumed>>
    /\ UNCHANGED loaderVars

Next ==
    \/ parseBuffers
    \/ parseBufferViews
    \/ parseAccessors
    \/ parseImages
    \/ parseTextures
    \/ parseMeshes
    \/ parseNodes
    \/ parseScenes
    \/ getParsedAsset
    \/ getParsedAssetPointer

Spec == Init /\ [][Next]_vars

\* ------------------------------------------------- one parser, many elements
\* the value of a candidate extension's key: 1 an object with a source,
\* 2 an object without one, 3 not an object
ExtValue(c, src) ==
    CASE c = 1 -> O([source |-> U(src)])
      [] c = 2 -> O([name |-> S(NameA)])
      [] c = 3 -> U(3)

\* an extensions map: b and d say what the basisu and the DDS key hold
\* (0: key absent), u whether an unrelated extension is there too
ExtMap(b, d, u) ==
    O([n \in {x \in {"KHR_texture_basisu"} : b # 0}
             \cup {x \in {"MSFT_texture_dds"} : d # 0}
             \cup {x \in {"EXT_other"} : u} |->
         IF n = "KHR_texture_basisu" THEN ExtValue(b, 7)
         ELSE IF n = "MSFT_texture_dds" THEN ExtValue(d, 5)
         ELSE O([source |-> U(9)])])

\* a texture: s says whether "source": 0 is there, e what "extensions" is
\* (0 absent, 1 the map, 2 not an object)
TextureDoc(s, e, b, d, u) ==
    O([f \in {x \in {"source"} : s} \cup {x \in {"extensions"} : e # 0} |->
         IF f = "source" THEN U(0)
         ELSE IF e = 1 THEN ExtMap(b, d, u) ELSE U(1)])

TextureProbes ==
    [i \in 1..64 |->
        TextureDoc(((i - 1) % 2) = 1, 1, ((i - 1) \div 2) % 4, ((i - 1) \div 8) % 4,
                   ((i - 1) \div 32) = 1)]
    \o <<TextureDoc(TRUE, 0, 0, 0, FALSE), TextureDoc(TRUE, 2, 0, 0, FALSE),
         TextureDoc(FALSE, 2, 0, 0, FALSE),
         O([source |-> U(2), sampler |-> U(1), name |-> S(NameA)])>>
    \o Malformed("textures")

\* a matrix of n entries 1, 2, .., n with entry p (if any) replaced by bad
MatrixDoc(n, p, bad) == O([matrix |-> A([k \in 1..n |-> IF k = p THEN bad ELSE U(k)])])

MatrixLens == <<0, 1, MatrixSize - 1, MatrixSize, MatrixSize + 1>>

NodeProbes ==
    [i \in 1..15 |->
        LET n == MatrixLens[((i - 1) \div 3) + 1]
            c == (i - 1) % 3
        IN  MatrixDoc(n, IF c = 0 THEN 0 ELSE IF c = 1 THEN 1 ELSE n, S(NameA))]
    \o <<MatrixDoc(MatrixSize, 3, F(2)), MatrixDoc(MatrixSize, MatrixSize, I(-4)),
         MatrixDoc(MatrixSize, 2, U(FloatExact + 1)), MatrixDoc(MatrixSize, 5, B(TRUE)),
         MatrixDoc(MatrixSize - 1, 7, O(EmptyFields)),
         O([matrix |-> U(3)]), O(EmptyFields), O([mesh |-> U(2), name |-> S(NameA)])>>
    \o Malformed("nodes")

BufferProbes ==
    [i \in 1..Len(Uris) |-> O([byteLength |-> U(4), uri |-> S(Uris[i])])]
    \o <<O([byteLength |-> U(4), uri |-> U(3)]),
         O([byteLength |-> U(8), uri |-> S(UriOctetQQ), name |-> S(NameA)])>>
    \o Malformed("buffers")

ImageProbes ==
    [i \in 1..Len(Uris) |-> O([uri |-> S(Uris[i])])]
    \o <<O([bufferView |-> U(2), mimeType |-> S(MimePngText)]),
         O([bufferView |-> U(0), mimeType |-> S(MimeOtherText)]),
         O([bufferView |-> U(2), mimeType |-> S(MimePngText), name |-> S(NameA)]),
         O([bufferView |-> U(2)]),
         O([bufferView |-> S(NameA), mimeType |-> S(MimePngText)]),
         O([uri |-> S(UriOctetQQ), mimeType |-> S(MimePngText)]),
         O([uri |-> S(UriPlain), mimeType |-> S(MimeOtherText)]),
         O([mimeType |-> S(MimePngText)]),
         O(EmptyFields)>>
    \o Malformed("images")

AccessorProbes ==
    <<ValidElem("accessors"),
      O([componentType |-> U(5123), type |-> S(TypeScalar), count |-> U(3),
         bufferView |-> U(1), byteOffset |-> U(8), normalized |-> B(TRUE),
         name |-> S(NameA)]),
      O([componentType |-> U(1), type |-> S(NameA), count |-> U(0)])>>
    \o Malformed("accessors")

Probes(kind) ==
    CASE kind = "buffers" -> BufferProbes
      [] kind = "images" -> ImageProbes
      [] kind = "textures" -> TextureProbes
      [] kind = "nodes" -> NodeProbes
      [] kind = "accessors" -> AccessorProbes
      [] OTHER -> <<ValidElem(kind)>> \o Malformed(kind)

\* the Options bits a parser reads
OptionChoices(kind) ==
    IF kind = "accessors" THEN SUBSET {"AllowDouble"}
    ELSE IF kind = "textures" THEN SUBSET {"LoadKTXExtension", "LoadDDSExtension"}
    ELSE {{}}

\* a session over a document whose array under test ends with one probe,
\* on which a parser and a retrieval are called
EntityInit ==
    /\ Fresh
    /\ LoaderIdle
    /\ budget = 2
    /\ \E kind \in Kinds :
          /\ options \in OptionChoices(kind)
          /\ \E i \in 1..Len(Probes(kind)), n \in 0..1 :
                doc = MakeDoc(kind, TRUE, A(Repeat(ValidElem(kind), n) \o <<Probes(kind)[i]>>))

EntitySpec == EntityInit /\ [][Next]_vars

\* --------------------------------------------------------------- the loader
\* loads made on one Parser
MaxLoads == 2

\* paths, written with '/' as the only separator and no root
PathModelGltf == <<"m", "/", "a", ".", "g", "l", "t", "f">>
PathNoAsset == <<"a", ".", "g", "l", "t", "f">>
PathTiny == <<"b", ".", "g", "l", "t", "f">>
PathGarbage == <<"c", ".", "g", "l", "t", "f">>
PathArrayRoot == <<"d", ".", "g", "l", "t", "f">>
PathAssetNumber == <<"e", ".", "g", "l", "t", "f">>
PathVersionNumber == <<"f", ".", "g", "l", "t", "f">>
PathGlb == <<"a", ".", "g", "l", "b">>
PathBare == <<"a">>
PathTrailingDot == <<"m", "/", "a", ".">>
PathMissingGltf == <<"x", ".", "g", "l", "t", "f">>
PathMissingGlb == <<"x", ".", "g", "l", "b">>
PathMissingBare == <<"x">>
PathEmpty == << >>
PathDir == <<"m">>

Paths ==
    {PathModelGltf, PathNoAsset, PathTiny, PathGarbage, PathArrayRoot,
     PathAssetNumber, PathVersionNumber, PathGlb, PathBare, PathTrailingDot,
     PathMissingGltf, PathMissingGlb, PathMissingBare, PathEmpty, PathDir}

\* the extension loadGLTF asks for, line 670
GltfExtension == <<".", "g", "l", "t", "f">>

\* the largest member of a nonempty set of positions, 0 for the empty set
Last(positions) ==
    IF positions = {} THEN 0
    ELSE CHOOSE i \in positions : \A j \in positions : j <= i

\* std::filesystem::path::filename: what follows the last separator
Filename(path) ==
    SubSeq(path, Last({i \in 1..Len(path) : path[i] = "/"}) + 1, Len(path))

\* std::filesystem::path::extension: from the last dot of the filename on;
\* empty when there is no dot, when the only dot opens the filename, and for
\* the filenames "." and ".."
Extension(path) ==
    LET name == Filename(path)
        dot == Last({i \in 1..Len(name) : name[i] = "."})
    IN  IF dot <= 1 \/ name = <<".", ".">> THEN << >>
        ELSE SubSeq(name, dot, Len(name))

\* std::filesystem::path::has_extension
HasExtension(path) == Extension(path) # << >>

\* std::filesystem::path::parent_path of a relative path
ParentPath(path) ==
    SubSeq(path, 1, Last({i \in 1..Len(path) : path[i] = "/"}) - 1)

\* bytes handed to the tokenizer: their count, whether parser->iterate
\* accepts them, and the root value doc.get_object() then looks at
VersionText == <<"2", ".", "0">>
BytesGood ==
    [size |-> 27, tokens |-> TRUE,
     root |-> O([asset |-> O([version |-> S(VersionText)])])]
BytesNoAsset == [size |-> 7, tokens |-> TRUE, root |-> O([a |-> U(1)])]
BytesEmptyObject == [size |-> 2, tokens |-> TRUE, root |-> O(EmptyFields)]
BytesAssetNumber == [size |-> 11, tokens |-> TRUE, root |-> O([asset |-> U(3)])]
BytesVersionNumber ==
    [size |-> 23, tokens |-> TRUE, root |-> O([asset |-> O([version |-> U(2)])])]
BytesArrayRoot == [size |-> 5, tokens |-> TRUE, root |-> A(<<U(1), U(2)>>)]
BytesGarbage == [size |-> 5, tokens |-> FALSE, root |-> U(0)]
BytesNone == [size |-> 0, tokens |-> FALSE, root |-> U(0)]

ByteBuffers ==
    {BytesGood, BytesNoAsset, BytesEmptyObject, BytesAssetNumber,
     BytesVersionNumber, BytesArrayRoot, BytesGarbage, BytesNone}

\* the file system the loads run against: "m" is a directory, the Missing
\* paths and the empty path name nothing
FileSystem(path) ==
    CASE path = PathDir -> [kind |-> "dir", bytes |-> BytesNone]
      [] path = PathModelGltf -> [kind |-> "file", bytes |-> BytesGood]
      [] path = PathNoAsset -> [kind |-> "file", bytes |-> BytesNoAsset]
      [] path = PathTiny -> [kind |-> "file", bytes |-> BytesEmptyObject]
      [] path = PathGarbage -> [kind |-> "file", bytes |-> BytesGarbage]
      [] path = PathArrayRoot -> [kind |-> "file", bytes |-> BytesArrayRoot]
      [] path = PathAssetNumber -> [kind |-> "file", bytes |-> BytesAssetNumber]
      [] path = PathVersionNumber -> [kind |-> "file", bytes |-> BytesVersionNumber]
      [] path = PathGlb -> [kind |-> "file", bytes |-> BytesGood]
      [] path = PathBare -> [kind |-> "file", bytes |-> BytesGood]
      [] path = PathTrailingDot -> [kind |-> "file", bytes |-> BytesGood]
      [] OTHER -> [kind |-> "none", bytes |-> BytesNone]

\* fs::exists, fs::is_directory
Exists(path) == FileSystem(path).kind # "none"
IsDirectory(path) == FileSystem(path).kind = "dir"

\* file.tellg() of a stream opened at the end, line 774: the size of a
\* file; for a directory the stream fails (-1) or reports a block
Tellg(path) ==
    IF IsDirectory(path) THEN {-1, 4096} ELSE {FileSystem(path).bytes.size}

\* the Options bits the loader reads
LoaderOptions == {"IgnoreFileExtension", "DontRequireValidAssetMember", "DontUseSIMD"}

\* what a loadGLTF leaves: the pointer returned, errorCode, the active
\* implementation, and for a session its root and directory
Failed(error, impl) ==
    [ret |-> "null", error |-> error, impl |-> impl,
     root |-> O(EmptyFields), dir |-> << >>]
Loaded(root, dir, error, impl) ==
    [ret |-> "session", error |-> error, impl |-> impl, root |-> root, dir |-> dir]

\* Parser::checkFileExtension, lines 647-659: its result and errorCode
checkFileExtension(path, extension, err) ==
    IF ~HasExtension(path) THEN [ok |-> FALSE, error |-> "InvalidPath"]
    ELSE IF Extension(path) # extension THEN [ok |-> FALSE, error |-> "WrongExtension"]
    ELSE [ok |-> TRUE, error |-> err]

\* Parser::readJsonFile, lines 767-787: its result and errorCode
readJsonFile(path, fileSize, err) ==
    IF ~Exists(path) THEN [ok |-> FALSE, error |-> "NonExistentPath"]
    ELSE IF fileSize < 4 THEN [ok |-> FALSE, error |-> "InvalidJson"]
    ELSE [ok |-> TRUE, error |-> err]

\* glTF::checkAssetField, lines 114-130.  The errorCode it sets is the
\* session's, and the session is destroyed when it returns false.
checkAssetField(root) ==
    IsObject(root, "asset") /\ IsString(root.v["asset"], "version")

\* simdjson::get_active_implementation() = ..., lines 683-685 and 731-733
SelectImplementation(opts, impl) ==
    IF hasBit(opts, "DontUseSIMD") THEN "fallback" ELSE impl

\* loadGLTF without line 668: errorCode keeps what the last load left
KeepError(err) == err

\* errorCode = Error::None, line 668
ClearError(err) == "None"

\* loadGLTF(fs::path, Options), lines 665-707
PathLoad(path, opts, fileSize, err, impl) ==
    LET cleared == ClearError(err)
        checked == checkFileExtension(path, GltfExtension, cleared)
        read == readJsonFile(path, fileSize, cleared)
        bytes == FileSystem(path).bytes
        selected == SelectImplementation(opts, impl)
    IN  IF ~hasBit(opts, "IgnoreFileExtension") /\ ~checked.ok
        THEN Failed("InvalidPath", impl)
        ELSE IF ~read.ok THEN Failed(read.error, impl)
        ELSE IF ~bytes.tokens THEN Failed("InvalidJson", selected)
        ELSE IF bytes.root.t # "obj" THEN Failed("InvalidJson", selected)
        ELSE IF ~hasBit(opts, "DontRequireValidAssetMember") /\ ~checkAssetField(bytes.root)
        THEN Failed("InvalidOrMissingAssetField", selected)
        ELSE Loaded(bytes.root, ParentPath(path), cleared, selected)

\* loadGLTF(std::string_view, Options), lines 709-716
StringPathLoad(path, opts, fileSize, err, impl) ==
    IF path = << >> \/ ~Exists(path) THEN Failed("InvalidPath", impl)
    ELSE PathLoad(path, opts, fileSize, err, impl)

\* loadGLTF(uint8_t*, size_t, fs::path, Options), lines 718-756
BytesLoad(bytes, dir, opts, err, impl) ==
    LET selected == SelectImplementation(opts, impl)
    IN  IF ~IsDirectory(dir) THEN Failed("InvalidPath", impl)
        ELSE IF ~bytes.tokens THEN Failed("InvalidJson", selected)
        ELSE IF bytes.root.t # "obj" THEN Failed("InvalidJson", selected)
        ELSE IF ~hasBit(opts, "DontRequireValidAssetMember") /\ ~checkAssetField(bytes.root)
        THEN Failed("InvalidOrMissingAssetField", selected)
        ELSE Loaded(bytes.root, dir, "None", selected)

\* loadGLTF(uint8_t*, size_t, std::string_view, Options), lines 758-765
StringDirLoad(bytes, dir, opts, err, impl) ==
    IF dir = << >> \/ ~IsDirectory(dir) THEN Failed("InvalidPath", impl)
    ELSE BytesLoad(bytes, dir, opts, err, impl)

\* Parser::Parser, lines 639-641: no load made, no session returned
LoaderInit ==
    /\ Fresh
    /\ doc = O(EmptyFields)
    /\ options = {}
    /\ budget = 0
    /\ parserErrorCode = "None"
    /\ gltf = "null"
    /\ gltfDirectory = << >>
    /\ activeImplementation = "best"
    /\ loads = 0
    /\ lastLoad = NoLoad
    /\ failedBefore = FALSE

\* the effect of one loadGLTF whose outcome is r: a session returned is a
\* new glTF (lines 106-108) over the root
Load(overload, path, opts, r) ==
    /\ loads < MaxLoads
    /\ parserErrorCode' = r.error
    /\ gltf' = r.ret
    /\ activeImplementation' = r.impl
    /\ IF r.ret = "session"
       THEN /\ doc' = r.root
            /\ options' = opts
            /\ gltfDirectory' = r.dir
            /\ errorCode' = "None"
            /\ assetOwned' = TRUE
            /\ asset' = [k \in Kinds |-> << >>]
       ELSE UNCHANGED <<doc, options, gltfDirectory, errorCode, assetOwned, asset>>
    /\ loads' = loads + 1
    /\ lastLoad' = [overload |-> overload, path |-> path, opts |-> opts]
    /\ failedBefore' = (failedBefore \/ (loads > 0 /\ gltf = "null"))
    /\ UNCHANGED <<crashed, calls, budget, lastOp, lastRet, ran, reported,
                   succeeded, consumed>>

loadGLTF ==
    \E path \in Paths, opts \in SUBSET LoaderOptions :
      \E fileSize \in Tellg(path) :
        Load("path", path, opts,
             PathLoad(path, opts, fileSize, parserErrorCode, activeImplementation))

loadGLTFString ==
    \E path \in Paths, opts \in SUBSET LoaderOptions :
      \E fileSize \in Tellg(path) :
        Load("string", path, opts,
             StringPathLoad(path, opts, fileSize, parserErrorCode, activeImplementation))

loadGLTFBytes ==
    \E bytes \in ByteBuffers, dir \in Paths, opts \in SUBSET LoaderOptions :
        Load("bytes", dir, opts,
             BytesLoad(bytes, dir, opts, parserErrorCode, activeImplementation))

loadGLTFBytesString ==
    \E bytes \in ByteBuffers, dir \in Paths, opts \in SUBSET LoaderOptions :
        Load("bytesString", dir, opts,
             StringDirLoad(bytes, dir, opts, parserErrorCode, activeImplementation))

LoaderNext ==
    \/ loadGLTF
    \/ loadGLTFString
    \/ loadGLTFBytes
    \/ loadGLTFBytesString

LoaderSpec == LoaderInit /\ [][LoaderNext]_vars

\* ------------------------------------------------------------------ claims
\* the array under test, its last element and what the parser made of it
Arr(kind) == doc.v[kind].v
Probe(kind) == Arr(kind)[Len(Arr(kind))]
JustParsed(kind) == calls = 1 /\ lastOp = kind /\ IsArray(doc, kind) /\ Len(Arr(kind)) > 0
ParsedAll(kind) == lastRet = "None" /\ Len(asset[kind]) = Len(Arr(kind))
Built(kind) == asset[kind][Len(Arr(kind))]

\* C1: an asset retrieval returns the asset only if no parser invoked before
\* it returned an error; after such an error it returns null.
C1_ReleaseOnlyWithoutError ==
    lastOp \in Retrievals => (reported => lastRet = "null")

\* a retrieval refused a session whose asset holds the elements parsed
\* before the malformed one
C1_Witness ==
    /\ lastOp \in Retrievals
    /\ reported
    /\ lastRet = "null"
    /\ \E kind \in Kinds : Len(asset[kind]) > 0 /\ kind \in ran

\* C2: once the error of a session is not none it is not none after every
\* later operation.
C2_ErrorSticky == [][errorCode # "None" => errorCode' # "None"]_vars

\* a parser whose own array is absent or entirely valid ran on a session in
\* error and left the error in place
C2_Witness ==
    /\ calls >= 2
    /\ lastOp \in Kinds
    /\ IterateTopLevel(doc, lastOp, options, NoJunk).error = "None"
    /\ errorCode = "InvalidGltf"
    /\ lastRet = "InvalidGltf"

\* C3 as stated: after a retrieval returned the asset, every further
\* retrieval returns null.
C3_ExactlyOnce ==
    [][(succeeded /\ calls' = calls + 1 /\ lastOp' \in Retrievals) => lastRet' = "null"]_vars

\* C3 amended: after getParsedAsset returned the asset, every further
\* retrieval, by getParsedAsset or getParsedAssetPointer, returns null.
C3_ConsumedStaysNull ==
    [][(consumed /\ calls' = calls + 1 /\ lastOp' \in Retrievals) => lastRet' = "null"]_vars

\* getParsedAssetPointer was refused on an error-free session whose asset
\* getParsedAsset had handed out
C3_Witness ==
    /\ consumed
    /\ errorCode = "None"
    /\ lastOp = "getParsedAssetPointer"
    /\ lastRet = "null"

\* the malformed elements of the claim C4: not an object, a required field
\* missing or mistyped, or a rule of the entity broken
BadPrimitive(p) ==
    \/ p.t # "obj"
    \/ ~IsObject(p, "attributes")
    \/ \E key \in DOMAIN p.v["attributes"].v : p.v["attributes"].v[key].t # "uint"

IsMalformed(kind, e) ==
    \/ e.t # "obj"
    \/ /\ e.t = "obj"
       /\ CASE kind = "buffers" -> ~IsUint(e, "byteLength") \/ ~Has(e, "uri")
            [] kind = "bufferViews" -> ~IsUint(e, "buffer") \/ ~IsUint(e, "byteLength")
            [] kind = "accessors" ->
                  \/ ~IsUint(e, "componentType")
                  \/ ~IsString(e, "type")
                  \/ ~IsUint(e, "count")
                  \/ /\ e.v["componentType"].v = ComponentTypeDouble
                     /\ "AllowDouble" \notin options
            [] kind = "images" ->
                  \/ Has(e, "uri") /\ Has(e, "bufferView")
                  \/ ~Has(e, "uri") /\ ~Has(e, "bufferView")
                  \/ IsUint(e, "bufferView") /\ ~IsString(e, "mimeType")
            [] kind = "textures" -> ~IsUint(e, "source") /\ ~Has(e, "extensions")
            [] kind = "meshes" ->
                  \/ ~IsArray(e, "primitives")
                  \/ \E i \in 1..Len(e.v["primitives"].v) : BadPrimitive(e.v["primitives"].v[i])
            [] kind = "nodes" -> FALSE
            [] kind = "scenes" ->
                  /\ IsArray(e, "nodes")
                  /\ \E i \in 1..Len(e.v["nodes"].v) : e.v["nodes"].v[i].t # "uint"

MalformedAt(kind) == {k \in 1..Len(Arr(kind)) : IsMalformed(kind, Arr(kind)[k])}
FirstMalformed(kind) == CHOOSE k \in MalformedAt(kind) : \A j \in MalformedAt(kind) : k <= j

\* C4: when the element at position k of a top-level array is malformed, the
\* parser of the array returns invalid-document, stops at k, and a later
\* retrieval returns null.
C4_MalformedElementRejected ==
    \A kind \in Kinds :
        (kind \in ran /\ ~crashed /\ IsArray(doc, kind) /\ MalformedAt(kind) # {}) =>
            /\ errorCode = "InvalidGltf"
            /\ lastOp \in Retrievals => lastRet = "null"
            /\ (calls = 1) =>
                  /\ lastRet = "InvalidGltf"
                  /\ Len(asset[kind]) = FirstMalformed(kind) - 1

\* C5: a top-level field that is present and not an array makes its parser
\* return invalid-document.
C5_NonArrayIsError ==
    \A kind \in Kinds :
        (calls = 1 /\ lastOp = kind /\ Has(doc, kind) /\ ~IsArray(doc, kind)) =>
            lastRet = "InvalidGltf"

\* the data URIs of the claim C6, data:<mime>;base64,<payload>: the text
\* behind "data:" up to the first ';' is the MIME type, "base64," follows
WellFormedDataUri(uri) ==
    /\ Substr(uri, 0, 5) = DataPrefix \o <<":">>
    /\ Find(uri, ";", 0) # Npos
    /\ Substr(uri, Find(uri, ";", 0) + 1, 7) = Base64Name \o <<",">>
Payload(uri) == Substr(uri, Find(uri, ";", 0) + 8, Npos)
MimeText(uri) == SubSeq(uri, 6, Find(uri, ";", 0))

\* C6: a buffer whose uri is data:<mime>;base64,<payload> parses, the base64
\* decoder is handed exactly <payload>, the MIME type is classified from
\* <mime> and the location is embedded bytes.
C6_DataUriPayload ==
    (JustParsed("buffers") /\ Probe("buffers").t = "obj" /\ IsUint(Probe("buffers"), "byteLength")
       /\ IsString(Probe("buffers"), "uri")
       /\ WellFormedDataUri(Probe("buffers").v["uri"].v)) =>
        /\ ParsedAll("buffers")
        /\ Built("buffers").location = "VectorWithMime"
        /\ Built("buffers").data.decoded
        /\ Built("buffers").data.encoded = Payload(Probe("buffers").v["uri"].v)
        /\ Built("buffers").data.mimeType
             = getMimeTypeFromString(MimeText(Probe("buffers").v["uri"].v))

\* C7: a buffer whose uri does not begin with "data:" parses as an external
\* reference: location file path, path = base directory joined with the uri.
C7_NonDataSchemeIsExternal ==
    (JustParsed("buffers") /\ Probe("buffers").t = "obj" /\ IsUint(Probe("buffers"), "byteLength")
       /\ IsString(Probe("buffers"), "uri")
       /\ Substr(Probe("buffers").v["uri"].v, 0, 5) # DataPrefix \o <<":">>) =>
        /\ ParsedAll("buffers")
        /\ Built("buffers").location = "FilePathWithByteRange"
        /\ Built("buffers").data.path = PathJoin(directory, Probe("buffers").v["uri"].v)

\* C8: a node has matrix-present = true exactly when its matrix is an array
\* of 16 numbers, and then entry i of the stored matrix is entry i of the
\* document (as a float); the node is appended either way.
C8_MatrixAllOrNothing ==
    (JustParsed("nodes") /\ Probe("nodes").t = "obj") =>
        LET isArr == IsArray(Probe("nodes"), "matrix")
            m == Elements(Probe("nodes"), "matrix")
            full == isArr /\ Len(m) = MatrixSize /\ \A k \in 1..Len(m) : IsNumber(m[k])
        IN  /\ ParsedAll("nodes")
            /\ Built("nodes").hasMatrix = full
            /\ full => \A i \in 0..(MatrixSize - 1) : Built("nodes").matrix[i] = ToFloat(m[i + 1])

\* C9: an image without uri, with a bufferView index and a mimeType string,
\* parses into a buffer-view-reference-with-mime data source carrying that
\* index and the classified MIME type.
C9_BufferViewImageParses ==
    (JustParsed("images") /\ Probe("images").t = "obj" /\ ~Has(Probe("images"), "uri")
       /\ IsUint(Probe("images"), "bufferView") /\ IsString(Probe("images"), "mimeType")) =>
        /\ ParsedAll("images")
        /\ Built("images").location = "BufferViewWithMime"
        /\ Built("images").data.bufferViewIndex = Probe("images").v["bufferView"].v
        /\ Built("images").data.mimeType
             = getMimeTypeFromString(Probe("images").v["mimeType"].v)

\* candidate extension ext is enabled and its object holds a source index
Supplies(tex, ext, flag) ==
    /\ flag \in options
    /\ IsObject(tex.v["extensions"], ext)
    /\ IsUint(tex.v["extensions"].v[ext], "source")
Supplied(tex, ext) == tex.v["extensions"].v[ext].v["source"].v
\* candidate extension ext is not consulted, or its key is absent
Skipped(tex, ext, flag) == flag \notin options \/ ~Has(tex.v["extensions"], ext)

\* C10: of the enabled candidates, basisu first and DDS second, the first
\* that supplies a source index gives the texture's image index and the ones
\* behind it are not consulted; the fallback index is the plain source.
C10_ExtensionOrder ==
    (JustParsed("textures") /\ Probe("textures").t = "obj"
       /\ IsObject(Probe("textures"), "extensions")) =>
        LET tex == Probe("textures")
            ktx == Supplies(tex, "KHR_texture_basisu", "LoadKTXExtension")
            dds == Supplies(tex, "MSFT_texture_dds", "LoadDDSExtension")
        IN  /\ ktx =>
                 /\ ParsedAll("textures")
                 /\ Built("textures").imageIndex = Supplied(tex, "KHR_texture_basisu")
            /\ (Skipped(tex, "KHR_texture_basisu", "LoadKTXExtension") /\ dds) =>
                 /\ ParsedAll("textures")
                 /\ Built("textures").imageIndex = Supplied(tex, "MSFT_texture_dds")
            /\ ParsedAll("textures") =>
                 /\ Built("textures").fallbackSet
                 /\ Built("textures").fallbackImageIndex = IndexOr(tex, "source", Npos)

\* "source": 0 with a DDS extension of source 5, no basisu key and both
\* options enabled gave image index 5 and fallback index 0
C10_Witness ==
    /\ JustParsed("textures")
    /\ options = {"LoadKTXExtension", "LoadDDSExtension"}
    /\ Probe("textures") = TextureDoc(TRUE, 1, 0, 1, FALSE)
    /\ ParsedAll("textures")
    /\ Built("textures").imageIndex = 5
    /\ Built("textures").fallbackImageIndex = 0

\* the probe texture was rejected: parseTextures returned invalid-document
\* and appended only the elements in front of it
Rejected(kind) == lastRet = "InvalidGltf" /\ Len(asset[kind]) = Len(Arr(kind)) - 1

\* C11: a texture with an extensions map in which no enabled candidate
\* supplies a source index fails to parse, with or without a plain source.
C11_NoCandidateFails ==
    (JustParsed("textures") /\ Probe("textures").t = "obj"
       /\ IsObject(Probe("textures"), "extensions")
       /\ ~Supplies(Probe("textures"), "KHR_texture_basisu", "LoadKTXExtension")
       /\ ~Supplies(Probe("textures"), "MSFT_texture_dds", "LoadDDSExtension")) =>
        Rejected("textures")

\* a texture with "source": 0 and a map holding only an unrelated extension
\* was rejected with both options enabled
C11_Witness ==
    /\ JustParsed("textures")
    /\ options = {"LoadKTXExtension", "LoadDDSExtension"}
    /\ Probe("textures") = TextureDoc(TRUE, 1, 0, 0, TRUE)
    /\ Rejected("textures")

\* the key of candidate ext is there with a value of the given shape, and the
\* candidate is enabled
NotAnObject(tex, ext, flag) ==
    flag \in options /\ Has(tex.v["extensions"], ext) /\ ~IsObject(tex.v["extensions"], ext)
WithoutSource(tex, ext, flag) ==
    /\ flag \in options
    /\ IsObject(tex.v["extensions"], ext)
    /\ ~IsUint(tex.v["extensions"].v[ext], "source")
\* parseTextureExtensions goes past candidate ext: it is disabled, or its
\* key does not hold an object
PassedOver(tex, ext, flag) == flag \notin options \/ ~IsObject(tex.v["extensions"], ext)

\* C13: a consulted candidate whose key holds a value that is not an object
\* makes the texture fail to parse.
C13_NonObjectExtensionFails ==
    (JustParsed("textures") /\ Probe("textures").t = "obj"
       /\ IsObject(Probe("textures"), "extensions")) =>
        LET tex == Probe("textures")
        IN  /\ NotAnObject(tex, "KHR_texture_basisu", "LoadKTXExtension") => Rejected("textures")
            /\ (Skipped(tex, "KHR_texture_basisu", "LoadKTXExtension")
                  /\ NotAnObject(tex, "MSFT_texture_dds", "LoadDDSExtension")) =>
                 Rejected("textures")

\* C14 as stated: a candidate whose object holds no source index is passed
\* over, and the next candidate that supplies one gives the image index.
C14_MissingSourceContinues ==
    (JustParsed("textures") /\ Probe("textures").t = "obj"
       /\ IsObject(Probe("textures"), "extensions")
       /\ WithoutSource(Probe("textures"), "KHR_texture_basisu", "LoadKTXExtension")
       /\ Supplies(Probe("textures"), "MSFT_texture_dds", "LoadDDSExtension")) =>
        /\ ParsedAll("textures")
        /\ Built("textures").imageIndex = Supplied(Probe("textures"), "MSFT_texture_dds")

\* C14 amended: a consulted candidate whose object holds no source index
\* makes the texture fail to parse, whatever the candidates behind it hold.
C14_MissingSourceFails ==
    (JustParsed("textures") /\ Probe("textures").t = "obj"
       /\ IsObject(Probe("textures"), "extensions")) =>
        LET tex == Probe("textures")
        IN  /\ WithoutSource(tex, "KHR_texture_basisu", "LoadKTXExtension") => Rejected("textures")
            /\ (PassedOver(tex, "KHR_texture_basisu", "LoadKTXExtension")
                  /\ WithoutSource(tex, "MSFT_texture_dds", "LoadDDSExtension")) =>
                 Rejected("textures")

\* a basisu object without source beside a DDS object with source 5 was
\* rejected with both options enabled
C14_Witness ==
    /\ JustParsed("textures")
    /\ options = {"LoadKTXExtension", "LoadDDSExtension"}
    /\ Probe("textures") = TextureDoc(TRUE, 1, 2, 1, FALSE)
    /\ Rejected("textures")

\* ------------------------------------------------------- claims on the loader
\* the last call was one of the two file-based overloads
FileLoad == loads > 0 /\ lastLoad.overload \in {"path", "string"}
\* the file it named is missing
MissingFile == ~Exists(lastLoad.path)
\* the extension was checked and is not ".gltf"
WrongExtensionChecked ==
    /\ ~hasBit(lastLoad.opts, "IgnoreFileExtension")
    /\ Extension(lastLoad.path) # GltfExtension

\* C12: a file-based load (either overload, with or without the extension
\* check) that names a missing file, or a file with the wrong extension
\* while the check is on, fails and leaves getError() = InvalidPath.
C12_MissingOrWrongExtensionIsInvalidPath ==
    (FileLoad /\ (MissingFile \/ WrongExtensionChecked))
        => (gltf = "null" /\ parserErrorCode = "InvalidPath")

\* C15: after every load, whatever the overload and whatever the loads
\* before it, getError() is None exactly when the load returned a session.
C15_ErrorNoneIffSession ==
    loads > 0 => (parserErrorCode = "None" <=> gltf = "session")

\* a load that returned a session right after one that failed
C15_Witness ==
    /\ failedBefore
    /\ loads = 2
    /\ lastLoad.overload = "path"
    /\ gltf = "session"
    /\ parserErrorCode = "None"

====
